---------------------------- MODULE Spec2Model ----------------------------
(***************************************************************************)
(* A model of the validated wrappers of cmsis_dsp.rs: the complex and      *)
(* statistics pass-throughs, the three filters (biquad cascade, FIR,       *)
(* decimating FIR) and the pure convolution conv_f32.                      *)
(*                                                                         *)
(* Every public function is one action.  Its body is the sequence of the   *)
(* statements of the Rust function, in source order, and Run executes it   *)
(* the way the program does: a failing statement (a panic) ends the call   *)
(* and nothing after it is executed.                                       *)
(*                                                                         *)
(* Machine integers keep a width.  u8 and u16 have their real widths; u32  *)
(* and usize are scaled down (U32Bits, USizeBits) so that their boundaries *)
(* are values TLC can hold, with u16 < u32 < usize as on a 64-bit target.  *)
(* Integer overflow panics in a build with overflow checks ("debug") and   *)
(* wraps in one without ("release"); both builds are modelled.             *)
(*                                                                         *)
(* f32 samples are modelled by integers (exact arithmetic): the properties *)
(* checked are about lengths, indices and the order of the terms.          *)
(***************************************************************************)
EXTENDS Integers, Sequences, FiniteSets, TLC

VARIABLES
    build,      \* "debug" (overflow checks on) or "release" (wrapping)
    filters,    \* slot -> the live filter instance the caller holds, or NoFilter
    last        \* the last public call: its arguments and what it did

vars == <<build, filters, last>>

---------------------------------------------------------------------------
(* Integer widths *)

U8Bits == 8
U16Bits == 16
U32Bits == 20
USizeBits == 24

U8Max == 2^U8Bits - 1
U16Max == 2^U16Bits - 1
U32Max == 2^U32Bits - 1
USizeMax == 2^USizeBits - 1

\* The value a fixed-width unsigned operation leaves in a build that wraps.
Wrap(x, bits) == x % (2^bits)

\* Whether the mathematical result x is outside the width: the operation
\* panics in a build with overflow checks, and wraps otherwise.
Overflows(x, bits) == x < 0 \/ x > 2^bits - 1

---------------------------------------------------------------------------
(* Bounds of the inputs *)

MaxLen == 1
NumBufs == 2
MaxFilters == 2
ConvMaxLen == 3

\* Buffer lengths a caller may pass: small ones, and the ones around the
\* 32-bit boundary (a slice length is a usize).
Lens == (0..MaxLen) \cup {U32Max, U32Max + 1}

Builds == {"debug", "release"}

---------------------------------------------------------------------------
(* check_length (crate root): the length validator *)

\* All elements of the tuple are the same length.
AllEqual(lengths) ==
    \A i \in DOMAIN lengths : lengths[i] = lengths[1]

\* check_length::<L, N>(lengths): the tuple's elements must all be equal
\* (LengthMismatch otherwise), and the common length must fit the result type
\* N, whose largest value is nmax (Overflow otherwise).
check_length(lengths, nmax) ==
    IF ~AllEqual(lengths) THEN [err |-> "LengthMismatch", v |-> 0]
    ELSE IF lengths[1] > nmax THEN [err |-> "Overflow", v |-> 0]
    ELSE [err |-> "Ok", v |-> lengths[1]]

---------------------------------------------------------------------------
(* Statements of a function body, and their execution *)

\* An integer expression whose mathematical value is x, computed in `bits`.
Arith(x, bits) == [t |-> "arith", ovf |-> Overflows(x, bits)]

\* check_length(lengths) with the result type N of the call site.
CheckLength(lengths, nmax) == [t |-> "check_length", lengths |-> lengths, nmax |-> nmax]

\* assert!(cond)
AssertStmt(cond) == [t |-> "assert", cond |-> cond]

\* One call into cmsis_dsp_sys: the length (or block size) handed over, and
\* the number of elements the kernel writes through the destination pointer.
\* `state` is the number of elements of the filter's state buffer it uses.
BackendCall(kernel, len, writes, state) ==
    [t |-> "call", kernel |-> kernel, len |-> len, writes |-> writes,
     state |-> state]

IsValidation(s) == s.t \in {"check_length", "assert"}

\* What one statement does in build `bld`: "Ok" to go on, or the panic.
StepOutcome(s, bld) ==
    CASE s.t = "arith" ->
            IF s.ovf /\ bld = "debug" THEN "ArithOverflow" ELSE "Ok"
      [] s.t = "check_length" -> check_length(s.lengths, s.nmax).err
      [] s.t = "assert" -> IF s.cond THEN "Ok" ELSE "OutOfRange"
      [] OTHER -> "Ok"

\* The number of validations (check_length, assert!) among statements 1..n.
RECURSIVE CountValidations(_, _)
CountValidations(body, n) ==
    IF n = 0 THEN 0
    ELSE CountValidations(body, n - 1) + (IF IsValidation(body[n]) THEN 1 ELSE 0)

\* Execute the statements from position i on.  acc.passed counts the
\* validations that succeeded; each backend call is logged with the number
\* of validations that had passed when it was issued, and each application
\* of check_length with its tuple, its result type and its result.
RECURSIVE RunFrom(_, _, _, _)
RunFrom(body, i, bld, acc) ==
    IF i > Len(body) THEN acc
    ELSE LET s == body[i]
             r == StepOutcome(s, bld)
             c == IF s.t = "check_length"
                  THEN Append(acc.checks,
                              [lengths |-> s.lengths, nmax |-> s.nmax,
                               res |-> check_length(s.lengths, s.nmax)])
                  ELSE acc.checks
         IN  IF r # "Ok" THEN [acc EXCEPT !.outcome = r, !.checks = c]
             ELSE RunFrom(body, i + 1, bld,
                    IF s.t = "call"
                    THEN [acc EXCEPT !.calls =
                            Append(@, [kernel |-> s.kernel, len |-> s.len,
                                       writes |-> s.writes, state |-> s.state,
                                       after |-> acc.passed])]
                    ELSE IF IsValidation(s)
                    THEN [acc EXCEPT !.passed = @ + 1, !.checks = c]
                    ELSE acc)

Run(body, bld) ==
    RunFrom(body, 1, bld,
            [outcome |-> "Ok", calls |-> <<>>, checks |-> <<>>, passed |-> 0,
             nchecks |-> CountValidations(body, Len(body))])

\* The record of a finished public call.
CallRecord(op, args, body, bld) ==
    LET r == Run(body, bld)
    IN  [op |-> op, args |-> args, outcome |-> r.outcome, calls |-> r.calls,
         checks |-> r.checks, passed |-> r.passed, nchecks |-> r.nchecks]

NoCall == [op |-> "none", args |-> <<>>, outcome |-> "Ok", calls |-> <<>>,
           checks |-> <<>>, passed |-> 0, nchecks |-> 0]

---------------------------------------------------------------------------
(* complex.rs *)

\* The length a passed check_length hands to the kernel.
Checked(lengths, nmax) == check_length(lengths, nmax).v

complex_magnitude_f32(source, destination) ==
    LET lengths == <<source, destination>>
        length == Checked(lengths, U32Max)
    IN  << CheckLength(lengths, U32Max),
           BackendCall("arm_cmplx_mag_f32", length, length, 0) >>

\* A variant that leaves the destination out of the checked tuple.
complex_mult_complex_f32_unchecked_dst(source_a, source_b, destination) ==
    LET lengths == <<source_a, source_b>>
        length == Checked(lengths, U32Max)
    IN  << CheckLength(lengths, U32Max),
           BackendCall("arm_cmplx_mult_cmplx_f32", length, length, 0) >>

complex_mult_complex_f32(source_a, source_b, destination) ==
    LET lengths == <<source_a, source_b, destination>>
        length == Checked(lengths, U32Max)
    IN  << CheckLength(lengths, U32Max),
           BackendCall("arm_cmplx_mult_cmplx_f32", length, length, 0) >>

complex_mult_real_f32(source_a, source_b, destination) ==
    LET lengths == <<source_a, source_b, destination>>
        length == Checked(lengths, U32Max)
    IN  << CheckLength(lengths, U32Max),
           BackendCall("arm_cmplx_mult_real_f32", length, length, 0) >>

---------------------------------------------------------------------------
(* statistics.rs: src, src_a, src_b and dst are slice lengths; a scalar    *)
(* destination (&mut f32) holds one element.                               *)

\* rms_f32 calls arm_abs_f32(pSrc, pDst, blockSize), the element-wise
\* absolute value, which writes blockSize elements through pDst.
rms_f32(src, size) ==
    LET length == Checked(<<src, size>>, U32Max)
    IN  << CheckLength(<<src, size>>, U32Max),
           BackendCall("arm_abs_f32", length, length, 0) >>

\* The reductions write one result.
mean_f32(src, size) ==
    LET length == Checked(<<src, size>>, U32Max)
    IN  << CheckLength(<<src, size>>, U32Max),
           BackendCall("arm_mean_f32", length, 1, 0) >>

var_f32(src, size) ==
    LET length == Checked(<<src, size>>, U32Max)
    IN  << CheckLength(<<src, size>>, U32Max),
           BackendCall("arm_var_f32", length, 1, 0) >>

std_f32(src, size) ==
    LET length == Checked(<<src, size>>, U32Max)
    IN  << CheckLength(<<src, size>>, U32Max),
           BackendCall("arm_std_f32", length, 1, 0) >>

max_f32(src, size) ==
    LET length == Checked(<<src, size>>, U32Max)
    IN  << CheckLength(<<src, size>>, U32Max),
           BackendCall("arm_max_f32", length, 1, 0) >>

min_f32(src, size) ==
    LET length == Checked(<<src, size>>, U32Max)
    IN  << CheckLength(<<src, size>>, U32Max),
           BackendCall("arm_min_f32", length, 1, 0) >>

mse_f32(src_a, src_b, size) ==
    LET length == Checked(<<src_a, src_b, size>>, U32Max)
    IN  << CheckLength(<<src_a, src_b, size>>, U32Max),
           BackendCall("arm_mse_f32", length, 1, 0) >>

\* dst is a slice whose length is not among the checked lengths.
mse_q31(src_a, src_b, size, dst) ==
    LET length == Checked(<<src_a, src_b, size>>, U32Max)
    IN  << CheckLength(<<src_a, src_b, size>>, U32Max),
           BackendCall("arm_mse_q31", length, 1, 0) >>

mse_q15(src_a, src_b, size, dst) ==
    LET length == Checked(<<src_a, src_b, size>>, U32Max)
    IN  << CheckLength(<<src_a, src_b, size>>, U32Max),
           BackendCall("arm_mse_q15", length, 1, 0) >>

\* The capacity of a scalar destination.
ScalarCap == 1

---------------------------------------------------------------------------
(* Actions: the stateless operations *)

\* A stateless call leaves its record and touches nothing else.
Stateless(op, args, body) ==
    last' = CallRecord(op, args, body, build)

ComplexMagnitude(lens) ==
    \E s \in lens, d \in lens :
        /\ Stateless("complex_magnitude_f32", [lens |-> <<s, d>>, dstcap |-> d],
                     complex_magnitude_f32(s, d))
        /\ UNCHANGED <<build, filters>>

ComplexMultComplex(lens) ==
    \E a \in lens, b \in lens, d \in lens :
        /\ Stateless("complex_mult_complex_f32", [lens |-> <<a, b, d>>, dstcap |-> d],
                     complex_mult_complex_f32(a, b, d))
        /\ UNCHANGED <<build, filters>>

ComplexMultReal(lens) ==
    \E a \in lens, b \in lens, d \in lens :
        /\ Stateless("complex_mult_real_f32", [lens |-> <<a, b, d>>, dstcap |-> d],
                     complex_mult_real_f32(a, b, d))
        /\ UNCHANGED <<build, filters>>

Rms(lens) ==
    \E s \in lens, n \in lens :
        /\ Stateless("rms_f32", [lens |-> <<s, n>>, dstcap |-> ScalarCap], rms_f32(s, n))
        /\ UNCHANGED <<build, filters>>

Mean(lens) ==
    \E s \in lens, n \in lens :
        /\ Stateless("mean_f32", [lens |-> <<s, n>>, dstcap |-> ScalarCap], mean_f32(s, n))
        /\ UNCHANGED <<build, filters>>

Var(lens) ==
    \E s \in lens, n \in lens :
        /\ Stateless("var_f32", [lens |-> <<s, n>>, dstcap |-> ScalarCap], var_f32(s, n))
        /\ UNCHANGED <<build, filters>>

Std(lens) ==
    \E s \in lens, n \in lens :
        /\ Stateless("std_f32", [lens |-> <<s, n>>, dstcap |-> ScalarCap], std_f32(s, n))
        /\ UNCHANGED <<build, filters>>

Max(lens) ==
    \E s \in lens, n \in lens :
        /\ Stateless("max_f32", [lens |-> <<s, n>>, dstcap |-> ScalarCap], max_f32(s, n))
        /\ UNCHANGED <<build, filters>>

Min(lens) ==
    \E s \in lens, n \in lens :
        /\ Stateless("min_f32", [lens |-> <<s, n>>, dstcap |-> ScalarCap], min_f32(s, n))
        /\ UNCHANGED <<build, filters>>

MseF32(lens) ==
    \E a \in lens, b \in lens, n \in lens :
        /\ Stateless("mse_f32", [lens |-> <<a, b, n>>, dstcap |-> ScalarCap],
                     mse_f32(a, b, n))
        /\ UNCHANGED <<build, filters>>

MseQ31(lens, dsts) ==
    \E a \in lens, b \in lens, n \in lens, d \in dsts :
        /\ Stateless("mse_q31", [lens |-> <<a, b, n>>, dstcap |-> d],
                     mse_q31(a, b, n, d))
        /\ UNCHANGED <<build, filters>>

MseQ15(lens, dsts) ==
    \E a \in lens, b \in lens, n \in lens, d \in dsts :
        /\ Stateless("mse_q15", [lens |-> <<a, b, n>>, dstcap |-> d],
                     mse_q15(a, b, n, d))
        /\ UNCHANGED <<build, filters>>

---------------------------------------------------------------------------
(* filter.rs: the filters.  coeffs, state, src and dst are slice lengths.  *)

\* BiquadCascadeDF2TFilter::new.  5 * num_stages and 2 * num_stages are u8
\* products, cast to usize afterwards; check_length's result type is usize.
\* The instance uses 2 * numStages elements of the state buffer.
BiquadCascadeDF2TFilter_new(num_stages, coeffs, state) ==
    << Arith(5 * num_stages, U8Bits),
       CheckLength(<<coeffs, Wrap(5 * num_stages, U8Bits)>>, USizeMax),
       Arith(2 * num_stages, U8Bits),
       CheckLength(<<state, Wrap(2 * num_stages, U8Bits)>>, USizeMax),
       BackendCall("arm_biquad_cascade_df2T_init_f32", num_stages, 0,
                   2 * num_stages) >>

\* BiquadCascadeDF2TFilter::process
BiquadCascadeDF2TFilter_process(self, src, dst, block_size) ==
    << CheckLength(<<src, dst>>, USizeMax),
       AssertStmt(block_size <= src /\ block_size <= dst),
       BackendCall("arm_biquad_cascade_df2T_f32", block_size, block_size,
                   2 * self.num) >>

\* (num_taps as u32) + block_size - 1, as the u32 arithmetic computes it.
FirStateLen(num_taps, block_size) ==
    Wrap(Wrap(num_taps + block_size, U32Bits) - 1, U32Bits)

\* FirFilter::new.  The kernel uses numTaps + blockSize - 1 state elements.
FirFilter_new(num_taps, coeffs, state, block_size) ==
    << CheckLength(<<num_taps, coeffs>>, USizeMax),
       Arith(num_taps + block_size, U32Bits),
       Arith(Wrap(num_taps + block_size, U32Bits) - 1, U32Bits),
       CheckLength(<<FirStateLen(num_taps, block_size), state>>, USizeMax),
       BackendCall("arm_fir_init_f32", block_size, 0,
                   num_taps + block_size - 1) >>

\* A variant that calls the kernel before the block-size assertion.
FirFilter_process_call_before_assert(self, src, dst, block_size) ==
    << CheckLength(<<src, dst>>, USizeMax),
       BackendCall("arm_fir_f32", block_size, block_size,
                   self.num + block_size - 1),
       AssertStmt(block_size <= src /\ block_size <= dst) >>

\* A variant that asserts the block size before it checks the lengths.
FirFilter_process_assert_first(self, src, dst, block_size) ==
    << AssertStmt(block_size <= src /\ block_size <= dst),
       CheckLength(<<src, dst>>, USizeMax),
       BackendCall("arm_fir_f32", block_size, block_size,
                   self.num + block_size - 1) >>

\* FirFilter::process
FirFilter_process(self, src, dst, block_size) ==
    << CheckLength(<<src, dst>>, USizeMax),
       AssertStmt(block_size <= src /\ block_size <= dst),
       BackendCall("arm_fir_f32", block_size, block_size,
                   self.num + block_size - 1) >>

\* FirFilterDecimate::new
FirFilterDecimate_new(num_taps, m, coeffs, state, block_size) ==
    << CheckLength(<<num_taps, coeffs>>, USizeMax),
       Arith(num_taps + block_size, U32Bits),
       Arith(Wrap(num_taps + block_size, U32Bits) - 1, U32Bits),
       CheckLength(<<FirStateLen(num_taps, block_size), state>>, USizeMax),
       BackendCall("arm_fir_decimate_init_f32", block_size, 0,
                   num_taps + block_size - 1) >>

\* FirFilterDecimate::process: the kernel writes blockSize / M outputs.
FirFilterDecimate_process(self, src, dst, block_size) ==
    << CheckLength(<<src, dst>>, USizeMax),
       AssertStmt(block_size <= src /\ block_size <= dst),
       BackendCall("arm_fir_decimate_f32", block_size, block_size \div self.m,
                   self.num + block_size - 1) >>

---------------------------------------------------------------------------
(* The filter instances the caller holds *)

NoFilter == [kind |-> "none"]

Slots == 1..MaxFilters

\* The wrapper structs hold the kernel's instance struct alone: numStages or
\* numTaps, (decimating) M, and the raw pointer pState into the caller's
\* state buffer.  A state buffer is an allocation `id` of `len` elements.
Instance(kind, num, m, id, len) ==
    [kind |-> kind, num |-> num, m |-> m, pState |-> [id |-> id, len |-> len]]

Live == {f \in Slots : filters[f] # NoFilter}

\* Inputs of the constructors: a small value, and the first ones whose
\* required length leaves the width it is computed in.
Stages == {1, (U8Max \div 5) + 1, (U8Max \div 2) + 1}
Taps == {1, 2}
Blocks == {1, U32Max}
\* Block sizes asked of process.
ProcBlocks == {1, 2, U32Max}
Decimations == {2}
\* Lengths of a scalar's worth and of an empty destination slice.
DstLens == {0, 1}

\* The lengths tried for a buffer whose required length is `required` and
\* is computed in `bits`: small ones, the required one and the computed one.
LenChoices(required, bits) ==
    (0..MaxLen) \cup {Wrap(required, bits)}
                \cup (IF required >= 0 THEN {required} ELSE {})
                \cup (IF required >= 1 THEN {required - 1} ELSE {})

\* Ok(Self) is returned when no statement panicked.
Construct(f, op, args, body, inst) ==
    LET rec == CallRecord(op, args, body, build)
    IN  /\ last' = rec
        /\ filters' = IF rec.outcome = "Ok"
                      THEN [filters EXCEPT ![f] = inst]
                      ELSE filters

BiquadNew(slots, ids, stages) ==
    \E f \in slots, id \in ids, n \in stages :
    \E c \in LenChoices(5 * n, U8Bits), s \in LenChoices(2 * n, U8Bits) :
        /\ filters[f] = NoFilter
        /\ Construct(f, "BiquadCascadeDF2TFilter::new",
                     [num |-> n, coeffs |-> c, state |-> s, id |-> id],
                     BiquadCascadeDF2TFilter_new(n, c, s),
                     Instance("biquad", n, 0, id, s))
        /\ UNCHANGED build

FirNew(slots, ids, taps, blocks) ==
    \E f \in slots, id \in ids, t \in taps, bs \in blocks :
    \E c \in (0..MaxLen) \cup {t}, s \in LenChoices(t + bs - 1, U32Bits) :
        /\ filters[f] = NoFilter
        /\ Construct(f, "FirFilter::new",
                     [num |-> t, coeffs |-> c, state |-> s, block_size |-> bs,
                      id |-> id],
                     FirFilter_new(t, c, s, bs),
                     Instance("fir", t, 0, id, s))
        /\ UNCHANGED build

FirDecimateNew(slots, ids, taps, blocks) ==
    \E f \in slots, id \in ids, t \in taps, bs \in blocks, m \in Decimations :
    \E c \in (0..MaxLen) \cup {t}, s \in LenChoices(t + bs - 1, U32Bits) :
        /\ filters[f] = NoFilter
        /\ Construct(f, "FirFilterDecimate::new",
                     [num |-> t, coeffs |-> c, state |-> s, block_size |-> bs,
                      id |-> id, m |-> m],
                     FirFilterDecimate_new(t, m, c, s, bs),
                     Instance("decimate", t, m, id, s))
        /\ UNCHANGED build

\* The body of process for the filter's kind.
ProcessBody(self, src, dst, block_size) ==
    CASE self.kind = "biquad" ->
            BiquadCascadeDF2TFilter_process(self, src, dst, block_size)
      [] self.kind = "fir" -> FirFilter_process(self, src, dst, block_size)
      [] self.kind = "decimate" ->
            FirFilterDecimate_process(self, src, dst, block_size)

ProcessName(kind) ==
    CASE kind = "biquad" -> "BiquadCascadeDF2TFilter::process"
      [] kind = "fir" -> "FirFilter::process"
      [] kind = "decimate" -> "FirFilterDecimate::process"

\* self.process(src, dst, block_size) on the instance in slot f.
Process(f, src, dst, block_size) ==
    last' = CallRecord(ProcessName(filters[f].kind),
                       [self |-> filters[f], src |-> src, dst |-> dst,
                        block_size |-> block_size],
                       ProcessBody(filters[f], src, dst, block_size), build)

BiquadProcess(lens, blocks) ==
    \E src \in lens, dst \in lens, bs \in blocks : \E f \in Live :
        /\ filters[f].kind = "biquad"
        /\ Process(f, src, dst, bs)
        /\ UNCHANGED <<build, filters>>

FirProcess(lens, blocks) ==
    \E src \in lens, dst \in lens, bs \in blocks : \E f \in Live :
        /\ filters[f].kind = "fir"
        /\ Process(f, src, dst, bs)
        /\ UNCHANGED <<build, filters>>

FirDecimateProcess(lens, blocks) ==
    \E src \in lens, dst \in lens, bs \in blocks : \E f \in Live :
        /\ filters[f].kind = "decimate"
        /\ Process(f, src, dst, bs)
        /\ UNCHANGED <<build, filters>>

\* The caller lets a filter go out of scope.
DropFilter ==
    \E f \in Live :
        /\ filters' = [filters EXCEPT ![f] = NoFilter]
        /\ last' = [NoCall EXCEPT !.op = "drop"]
        /\ UNCHANGED build

\* The structs carry no lifetime, so the &mut borrow of `state` ends when
\* new returns: the caller may read or write the buffer again.
CallerAccess(ids, lens) ==
    \E id \in ids, len \in lens :
        /\ last' = [NoCall EXCEPT !.op = "caller_access",
                                  !.args = [id |-> id, len |-> len]]
        /\ UNCHANGED <<build, filters>>

---------------------------------------------------------------------------
(* Specifications *)

Init ==
    /\ build \in Builds
    /\ filters = [f \in Slots |-> NoFilter]
    /\ last = NoCall

\* Every public operation that reaches the backend, with one filter held at
\* a time.
Next ==
    \/ ComplexMagnitude(Lens)
    \/ ComplexMultComplex(Lens)
    \/ ComplexMultReal(Lens)
    \/ Rms(Lens)
    \/ Mean(Lens)
    \/ Var(Lens)
    \/ Std(Lens)
    \/ Max(Lens)
    \/ Min(Lens)
    \/ MseF32(Lens)
    \/ MseQ31(Lens, DstLens)
    \/ MseQ15(Lens, DstLens)
    \/ BiquadNew({1}, {1}, Stages)
    \/ FirNew({1}, {1}, Taps, Blocks)
    \/ FirDecimateNew({1}, {1}, Taps, Blocks)
    \/ BiquadProcess(Lens, ProcBlocks)
    \/ FirProcess(Lens, ProcBlocks)
    \/ FirDecimateProcess(Lens, ProcBlocks)
    \/ DropFilter

Spec == Init /\ [][Next]_vars

\* Several filters held at once, on the caller's state buffers, which the
\* caller may also touch.
BufIds == 1..NumBufs

NextOwn ==
    \/ BiquadNew(Slots, BufIds, {1})
    \/ FirNew(Slots, BufIds, {2}, {1})
    \/ FirDecimateNew(Slots, BufIds, {2}, {1})
    \/ BiquadProcess({1}, {1})
    \/ FirProcess({1}, {1})
    \/ FirDecimateProcess({1}, {1})
    \/ DropFilter
    \/ CallerAccess(BufIds, {2})

SpecOwn == Init /\ [][NextOwn]_vars

---------------------------------------------------------------------------
(* filter.rs: conv_f32.  Sequences are 1-based here; the Rust index k is   *)
(* element k + 1.                                                           *)

ConvVals == {0, 1, 2, 3}

RECURSIVE SeqsUpTo(_, _)
SeqsUpTo(S, n) ==
    IF n = 0 THEN {<<>>}
    ELSE LET shorter == SeqsUpTo(S, n - 1)
         IN  shorter \cup {Append(q, x) : q \in {r \in shorter : Len(r) = n - 1}, x \in S}

\* for k in k..=kmax { dst[n] += src_a[k] * src_b[n - k]; }
\* An index outside its slice panics; what was written to dst stays.
RECURSIVE ConvInner(_, _, _, _, _, _)
ConvInner(src_a, src_b, n, k, kmax, st) ==
    IF k > kmax \/ st.outcome # "Ok" THEN st
    ELSE LET seen == [st EXCEPT !.visited = @ \cup {<<n, k>>}]
         IN  IF k >= Len(src_a) \/ n - k >= Len(src_b)
             THEN [seen EXCEPT !.outcome = "IndexOutOfBounds"]
             ELSE ConvInner(src_a, src_b, n, k + 1, kmax,
                    [seen EXCEPT !.dst[n + 1] = @ + src_a[k + 1] * src_b[n - k + 1]])

\* One iteration of `for n in 0..dst.len()`: the two clamps, then the sum.
\* src_b.len() - 1 and src_a.len() - 1 are usize subtractions.
ConvIteration(src_a, src_b, n, bld, st) ==
    LET a == Len(src_a)
        b == Len(src_b)
        zeroed == [st EXCEPT !.dst[n + 1] = 0]
        bm1 == Wrap(b - 1, USizeBits)
        am1 == Wrap(a - 1, USizeBits)
        kmin == IF n >= bm1 THEN n - bm1 ELSE 0
        kmax == IF n < am1 THEN n ELSE am1
    IN  IF Overflows(b - 1, USizeBits) /\ bld = "debug"
        THEN [zeroed EXCEPT !.outcome = "ArithOverflow", !.underflow = TRUE]
        ELSE IF Overflows(a - 1, USizeBits) /\ bld = "debug"
        THEN [zeroed EXCEPT !.outcome = "ArithOverflow", !.underflow = TRUE]
        ELSE ConvInner(src_a, src_b, n, kmin, kmax,
               [zeroed EXCEPT !.underflow =
                    @ \/ Overflows(b - 1, USizeBits) \/ Overflows(a - 1, USizeBits)])

RECURSIVE ConvLoop(_, _, _, _, _)
ConvLoop(src_a, src_b, n, bld, st) ==
    IF n >= Len(st.dst) \/ st.outcome # "Ok" THEN st
    ELSE ConvLoop(src_a, src_b, n + 1, bld, ConvIteration(src_a, src_b, n, bld, st))

\* conv_f32(src_a, src_b, dst): dst arrives holding `dst`.  The record says
\* how the call ended, what dst holds then, the (n, k) the inner loop
\* visited, and whether a length subtraction went below zero.
conv_f32(src_a, src_b, dst, bld) ==
    LET a == Len(src_a)
        b == Len(src_b)
        st0 == [outcome |-> "Ok", dst |-> dst, visited |-> {},
                underflow |-> Overflows(a + b - 1, USizeBits)]
        chk == check_length(<<Len(dst), Wrap(a + b - 1, USizeBits)>>, USizeMax)
    IN  IF st0.underflow /\ bld = "debug"
        THEN [st0 EXCEPT !.outcome = "ArithOverflow"]
        ELSE IF chk.err # "Ok" THEN [st0 EXCEPT !.outcome = chk.err]
        ELSE ConvLoop(src_a, src_b, 0, bld, st0)

\* The caller's buffers before the call: dst holds stale samples (3).
InitConv ==
    /\ build \in Builds
    /\ filters = [f \in Slots |-> NoFilter]
    /\ \E src_a \in SeqsUpTo(ConvVals, ConvMaxLen),
          src_b \in SeqsUpTo(ConvVals, ConvMaxLen),
          n \in 0..(2 * ConvMaxLen) :
            last = [op |-> "conv_f32 args",
                    args |-> [src_a |-> src_a, src_b |-> src_b,
                              dst |-> [i \in 1..n |-> 3]]]

Conv ==
    /\ last.op = "conv_f32 args"
    /\ last' = [op |-> "conv_f32", args |-> last.args,
                res |-> conv_f32(last.args.src_a, last.args.src_b,
                                 last.args.dst, build)]
    /\ UNCHANGED <<build, filters>>

SpecConv == InitConv /\ [][Conv]_vars

---------------------------------------------------------------------------
(* The operations, by kind *)

ComplexOps ==
    {"complex_magnitude_f32", "complex_mult_complex_f32", "complex_mult_real_f32"}

StatOps ==
    {"rms_f32", "mean_f32", "var_f32", "std_f32", "max_f32", "min_f32",
     "mse_f32", "mse_q31", "mse_q15"}

NewOps ==
    {"BiquadCascadeDF2TFilter::new", "FirFilter::new", "FirFilterDecimate::new"}

ProcessOps ==
    {"BiquadCascadeDF2TFilter::process", "FirFilter::process",
     "FirFilterDecimate::process"}

BackendOps == ComplexOps \cup StatOps \cup NewOps \cup ProcessOps

---------------------------------------------------------------------------
(* C1 *)

\* C1: in every public operation that calls the backend, no backend call is
\* issued when the call ends in a failure (a length validation or the
\* block-size assertion failed), and when it ends well exactly one backend
\* call was issued, after every validation of the operation had passed.
C1_OneCallAfterValidation ==
    last.op \in BackendOps =>
        /\ last.outcome # "Ok" => last.calls = <<>>
        /\ last.passed < last.nchecks => last.calls = <<>>
        /\ last.outcome = "Ok" =>
              /\ Len(last.calls) = 1
              /\ last.calls[1].after = last.nchecks
              /\ last.passed = last.nchecks

\* A process call whose length check passed and whose block-size assertion
\* failed: it ended without a backend call.
C1_Witness ==
    /\ last.op = "FirFilter::process"
    /\ last.outcome = "OutOfRange"
    /\ last.passed = 1
    /\ last.calls = <<>>

---------------------------------------------------------------------------
(* C2 *)

\* C2 as stated: every application of check_length returns the common
\* length if and only if all elements are equal and that length is at most
\* 2^32-1, fails with LengthMismatch when two elements differ, and fails
\* with Overflow when all agree on a length greater than 2^32-1.
C2_AsStated ==
    \A i \in DOMAIN last.checks :
        LET c == last.checks[i]
            fits == AllEqual(c.lengths) /\ c.lengths[1] <= U32Max
        IN  /\ (c.res.err = "Ok") <=> fits
            /\ c.res.err = "Ok" => c.res.v = c.lengths[1]
            /\ ~AllEqual(c.lengths) => c.res.err = "LengthMismatch"
            /\ (AllEqual(c.lengths) /\ c.lengths[1] > U32Max) =>
                    c.res.err = "Overflow"

\* C2, amended: the bound is that of the result type the call site asks
\* for.  The complex and statistics operations ask for u32: each checks the
\* tuple of all its lengths, hands the common length to the kernel exactly
\* when all are equal and at most 2^32-1, fails with LengthMismatch when two
\* differ and with Overflow when all agree on a greater length.  The filter
\* operations ask for usize: they never fail with Overflow, and a process
\* call on equal lengths above 2^32-1 passes its length check.
C2_PerResultType ==
    /\ last.op \in ComplexOps \cup StatOps =>
        LET lengths == last.args.lens
            fits == AllEqual(lengths) /\ lengths[1] <= U32Max
        IN  /\ Len(last.checks) = 1
            /\ last.checks[1].lengths = lengths
            /\ (last.outcome = "Ok") <=> fits
            /\ last.outcome = "Ok" => last.calls[1].len = lengths[1]
            /\ ~AllEqual(lengths) => last.outcome = "LengthMismatch"
            /\ (AllEqual(lengths) /\ lengths[1] > U32Max) =>
                    last.outcome = "Overflow"
    /\ last.op \in NewOps \cup ProcessOps =>
        /\ last.outcome # "Overflow"
        /\ \A i \in DOMAIN last.checks :
              LET c == last.checks[i]
              IN  /\ (c.res.err = "Ok") <=> AllEqual(c.lengths)
                  /\ c.res.err = "Ok" => c.res.v = c.lengths[1]
                  /\ ~AllEqual(c.lengths) => c.res.err = "LengthMismatch"

\* Three equal lengths just above 2^32-1: the 3-tuple check fails with
\* Overflow.
C2_Witness ==
    /\ last.op = "complex_mult_complex_f32"
    /\ AllEqual(last.args.lens)
    /\ last.args.lens[1] = U32Max + 1
    /\ last.outcome = "Overflow"

---------------------------------------------------------------------------
(* C6 *)

\* C6 as stated: process with block_size greater than src.len() or greater
\* than dst.len() fails with OutOfRange, process with src.len() # dst.len()
\* fails with LengthMismatch, and the backend is reached only when the
\* lengths are equal and block_size is at most that length.
C6_AsStated ==
    last.op \in ProcessOps =>
        LET src == last.args.src
            dst == last.args.dst
            block_size == last.args.block_size
        IN  /\ (block_size > src \/ block_size > dst) =>
                    last.outcome = "OutOfRange"
            /\ src # dst => last.outcome = "LengthMismatch"
            /\ last.calls # <<>> => (src = dst /\ block_size <= src)

\* C6, amended: the length check comes first.  process with src.len() #
\* dst.len() fails with LengthMismatch whatever block_size is; process with
\* src.len() = dst.len() and block_size greater than that length fails with
\* OutOfRange; the backend is reached exactly when the lengths are equal and
\* block_size is at most that length.
C6_LengthCheckFirst ==
    last.op \in ProcessOps =>
        LET src == last.args.src
            dst == last.args.dst
            block_size == last.args.block_size
        IN  /\ src # dst => last.outcome = "LengthMismatch"
            /\ (src = dst /\ block_size > src) => last.outcome = "OutOfRange"
            /\ last.calls # <<>> <=> (src = dst /\ block_size <= src)

\* Equal lengths and a block size above them: OutOfRange.
C6_Witness ==
    /\ last.op \in ProcessOps
    /\ last.args.src = last.args.dst
    /\ last.args.block_size > last.args.src
    /\ last.outcome = "OutOfRange"

---------------------------------------------------------------------------
(* C4, C5 *)

\* C4: BiquadCascadeDF2TFilter::new produces an instance (and calls the
\* backend setup) only if coeffs.len() = 5 * num_stages and state.len() =
\* 2 * num_stages as mathematical integers, and fails with LengthMismatch,
\* producing no instance, for any other lengths.
C4_BiquadNewLengths ==
    last.op = "BiquadCascadeDF2TFilter::new" =>
        LET right == /\ last.args.coeffs = 5 * last.args.num
                     /\ last.args.state = 2 * last.args.num
        IN  /\ (last.outcome = "Ok" \/ last.calls # <<>>) => right
            /\ ~right => last.outcome = "LengthMismatch"

\* C5: FirFilter::new and FirFilterDecimate::new produce an instance only if
\* coeffs.len() = num_taps and state.len() = num_taps + block_size - 1 as a
\* mathematical integer, and fail with LengthMismatch otherwise.
C5_FirNewLengths ==
    last.op \in {"FirFilter::new", "FirFilterDecimate::new"} =>
        LET right == /\ last.args.coeffs = last.args.num
                     /\ last.args.state = last.args.num + last.args.block_size - 1
        IN  /\ (last.outcome = "Ok" \/ last.calls # <<>>) => right
            /\ ~right => last.outcome = "LengthMismatch"

---------------------------------------------------------------------------
(* C7 *)

\* C7: the state buffer handed to a filter's new is exclusively owned by
\* that instance while it lives: no two live instances are on the same state
\* buffer, and the caller does not access the buffer of a live instance.
C7_ExclusiveState ==
    /\ \A f \in Live, g \in Live :
            f # g => filters[f].pState # filters[g].pState
    /\ last.op = "caller_access" =>
            \A f \in Live : filters[f].pState # last.args

---------------------------------------------------------------------------
(* C9 *)

\* C9: on a FirFilter or FirFilterDecimate constructed with taps T and block
\* size B, on a state buffer of T + B - 1 elements, every process call that
\* passes validation has the backend use at most the state buffer's length:
\* T + block_size - 1 <= T + B - 1, i.e. block_size <= B.
C9_StateUseWithinBuffer ==
    (/\ last.op \in {"FirFilter::process", "FirFilterDecimate::process"}
     /\ last.outcome = "Ok"
     /\ last.args.self.pState.len - last.args.self.num + 1 \in 0..U32Max) =>
        /\ last.calls[1].state <= last.args.self.pState.len
        /\ last.args.block_size <=
                last.args.self.pState.len - last.args.self.num + 1

---------------------------------------------------------------------------
(* C10 *)

\* C10: for every statistics operation that passes validation, the kernel
\* invoked writes at most the destination's capacity: one element for a
\* scalar destination, dst.len() for a slice destination.
C10_WritesWithinDestination ==
    (last.op \in StatOps /\ last.outcome = "Ok") =>
        \A i \in DOMAIN last.calls : last.calls[i].writes <= last.args.dstcap

---------------------------------------------------------------------------
(* C3, C8 *)

\* The term indices of output n, as mathematical integers.
KMin(n, b) == IF n - (b - 1) > 0 THEN n - (b - 1) ELSE 0
KMax(n, a) == IF n < a - 1 THEN n ELSE a - 1

\* The sum of src_a[k] * src_b[n - k] for k = lo..hi (empty when lo > hi).
RECURSIVE ConvSum(_, _, _, _, _)
ConvSum(src_a, src_b, n, lo, hi) ==
    IF lo > hi THEN 0
    ELSE ConvSum(src_a, src_b, n, lo, hi - 1) + src_a[hi + 1] * src_b[n - hi + 1]

\* C3: conv_f32 fails with LengthMismatch when dst.len() differs from
\* a + b - 1, and otherwise returns with dst[n] the sum of A[k] * B[n - k]
\* for k from max(0, n - (b - 1)) to min(n, a - 1), for every n.
C3_FullConvolution ==
    last.op = "conv_f32" =>
        LET src_a == last.args.src_a
            src_b == last.args.src_b
            a == Len(src_a)
            b == Len(src_b)
        IN  IF Len(last.args.dst) # a + b - 1
            THEN last.res.outcome = "LengthMismatch"
            ELSE /\ last.res.outcome = "Ok"
                 /\ Len(last.res.dst) = a + b - 1
                 /\ \A n \in 0..(a + b - 2) :
                        last.res.dst[n + 1] =
                            ConvSum(src_a, src_b, n, KMin(n, b), KMax(n, a))

\* C8: for all input lengths a and b, zero included, with dst.len() =
\* a + b - 1, every k the inner loop visits for output n has 0 <= k < a and
\* 0 <= n - k < b, and no length subtraction goes below zero.
C8_ClampInBounds ==
    (/\ last.op = "conv_f32"
     /\ Len(last.args.dst) = Len(last.args.src_a) + Len(last.args.src_b) - 1) =>
        /\ ~last.res.underflow
        /\ \A v \in last.res.visited :
              /\ 0 <= v[2] /\ v[2] < Len(last.args.src_a)
              /\ 0 <= v[1] - v[2] /\ v[1] - v[2] < Len(last.args.src_b)

=============================================================================
